---- MODULE Spec2Model ----
(***************************************************************************)
(* micrograd-rs: the scalar reverse-mode autodiff engine of src/value.rs   *)
(* and src/value/ops.rs (main.rs carries an older copy of the same code).  *)
(*                                                                         *)
(* A node is one shared (data, grad) cell pair; the model numbers the      *)
(* nodes 1..n in creation order.  f32 numbers are modelled in fixed point: *)
(* the integer v stands for v / Scale, which is exact on the integers the  *)
(* arithmetic claims are about.                                            *)
(***************************************************************************)
EXTENDS Integers, Sequences, FiniteSets

\* ------------------------------------------------------------------ bounds
MaxNodes == 4        \* nodes ever created
MaxPasses == 2       \* calls of full_backward
Scale == 100         \* fixed-point denominator
MaxMag == 100        \* |value| of a node, in units
ExpArgMax == 3       \* |argument| of exp / tanh, in units

LeafVals == {2, 3}   \* values handed to Value::new by the caller
PowExps == {2, 3}    \* exponents handed to powf by the caller

\* ------------------------------------------------- fixed-point arithmetic
One == Scale
Fx(k) == k * Scale
Abs(x) == IF x < 0 THEN -x ELSE x

\* a * b on f32
FxMul(a, b) == (a \div Scale) * b + ((a % Scale) * b) \div Scale

\* a / b on f32, b # 0
FxDiv(a, b) == IF b < 0 THEN (-a * Scale) \div (-b) ELSE (a * Scale) \div b

RECURSIVE PowNat(_, _)
PowNat(x, k) == IF k = 0 THEN One ELSE FxMul(x, PowNat(x, k - 1))

\* f32::powf(x, k) for an integral exponent k
PowFx(x, k) == IF k >= 0 THEN PowNat(x, k) ELSE FxDiv(One, PowNat(x, -k))

RECURSIVE ExpSeries(_, _, _)
ExpSeries(x, term, n) ==
    IF term = 0 THEN 0 ELSE term + ExpSeries(x, FxMul(term, x) \div n, n + 1)

RECURSIVE ExpCalc(_)
\* e^x by halving the argument down to the series
ExpCalc(x) ==
    IF x < 0 THEN FxDiv(One, ExpCalc(-x))
    ELSE IF x > One THEN LET h == ExpCalc(x \div 2)
                             r == ExpCalc(x - 2 * (x \div 2))
                         IN FxMul(FxMul(h, h), r)
    ELSE ExpSeries(x, One, 1)

\* the arguments exp is ever given: tanh doubles its own
ExpDom == (-2 * Fx(ExpArgMax)) .. (2 * Fx(ExpArgMax))
ExpTable == [x \in ExpDom |-> ExpCalc(x)]

\* f32::exp(x)
ExpFx(x) == IF x \in ExpDom THEN ExpTable[x] ELSE ExpCalc(x)

\* the forward formula of Value::tanh and f32::tanh(x)
TanhFx(x) == LET e == ExpFx(2 * x) IN FxDiv(e - One, e + One)

\* ------------------------------------------------------------------ state
VARIABLES
    data,      \* data[n]: the value cell of node n          (Value.data)
    grad,      \* grad[n]: the gradient cell of node n       (Value.grad)
    op,        \* op[n]: the provenance of node n            (Value.op)
    handles,   \* the nodes the caller holds a Value of
    pc,        \* "idle", or "replay" inside full_backward's loop
    topo,      \* full_backward's local: the list it replays
    i,         \* the position of the replay loop in topo
    root,      \* the receiver of the last full_backward, 0 once gradients are reset
    clean,     \* whether every gradient was 0 when that full_backward began
    passes     \* calls of full_backward so far

vars == <<data, grad, op, handles, pc, topo, i, root, clean, passes>>

Nodes == 1..Len(data)

\* Option<Operation>: None has no operand, Tanh and Exp have one
NoOp == [tag |-> "None", a |-> 0, b |-> 0]
Unary(t, x) == [tag |-> t, a |-> x, b |-> 0]
Binary(t, x, y) == [tag |-> t, a |-> x, b |-> y]

Operands(n) == {op[n].a, op[n].b} \ {0}

\* |value| within the modelled range of f32
InRange(v) == Abs(v) <= Fx(MaxMag)

\* ------------------------------------------------------- node construction
\* The graph after allocating one more Value { data: v, grad: 0.0, op: o }:
\* a record of the three cell sequences.
Alloc(g, v, o) ==
    [data |-> Append(g.data, v), grad |-> Append(g.grad, 0), op |-> Append(g.op, o)]

Graph == [data |-> data, grad |-> grad, op |-> op]

\* Value::new(v, label)
new(g, v) == Alloc(g, v, NoOp)

\* an Add that updates its receiver in place instead of allocating the sum
add_in_place(g, x, y) ==
    [g EXCEPT !.data[x] = g.data[x] + g.data[y], !.op[x] = Binary("Add", x, y)]

\* impl Add for Value
add(g, x, y) == Alloc(g, g.data[x] + g.data[y], Binary("Add", x, y))

\* impl Mul for Value
mul(g, x, y) == Alloc(g, FxMul(g.data[x], g.data[y]), Binary("Mul", x, y))

\* Value::tanh
tanh(g, x) == Alloc(g, TanhFx(g.data[x]), Unary("Tanh", x))

\* Value::exp
exp(g, x) == Alloc(g, ExpFx(g.data[x]), Unary("Exp", x))

\* Value::pow: the exponent is the node k
pow(g, x, k) ==
    Alloc(g, PowFx(g.data[x], g.data[k] \div Scale), Binary("Pow", x, k))

\* Value::powf: a fresh leaf holds the exponent
powf(g, x, k) == LET g1 == new(g, Fx(k)) IN pow(g1, x, Len(g1.data))

\* impl Mul<f32> for Value: a fresh leaf holds the scalar
mulf(g, x, k) == LET g1 == new(g, Fx(k)) IN mul(g1, x, Len(g1.data))

\* a negation that multiplies by +1
neg_plus(g, x) == mulf(g, x, 1)

\* impl Neg for Value: self * -1f32
neg(g, x) == mulf(g, x, -1)

\* impl Sub for Value: self + -other
sub(g, x, y) == LET g1 == neg(g, y) IN add(g1, x, Len(g1.data))

\* impl Div for Value: self * other.powf(-1f32)
div(g, x, y) == LET g1 == powf(g, y, -1) IN mul(g1, x, Len(g1.data))

\* ------------------------------------------------------------ backward pass
\* an accumulation that finds its target by content: every node of the value
\* and provenance of x receives v
Accumulate_by_value(g, x, v) ==
    [g EXCEPT !.grad = [y \in DOMAIN g.grad |->
                           IF g.data[y] = g.data[x] /\ g.op[y] = g.op[x]
                           THEN g.grad[y] + v ELSE g.grad[y]]]

\* *x.grad.borrow_mut() += v
Accumulate(g, x, v) == [g EXCEPT !.grad[x] = g.grad[x] + v]

\* an Add whose two sums are both taken from the cells as they were before it
backward_add_snapshot(g, n) ==
    LET o == g.op[n]
        ga == g.grad[o.a] + g.grad[n]
        gb == g.grad[o.b] + g.grad[n]
    IN [g EXCEPT !.grad = [[g.grad EXCEPT ![o.a] = ga] EXCEPT ![o.b] = gb]]

\* an Add that adds the second operand's share to its value cell
backward_add_data(g, n) ==
    LET o == g.op[n]
        g1 == Accumulate(g, o.a, g.grad[n])
    IN [g1 EXCEPT !.data[o.b] = g1.data[o.b] + g1.grad[n]]

\* Operation::Add arm of Value::backward
backward_add(g, n) ==
    LET o == g.op[n]
        g1 == Accumulate(g, o.a, g.grad[n])
    IN Accumulate(g1, o.b, g1.grad[n])

\* a Mul that scales each operand's share by that operand's own value
backward_mul_swapped(g, n) ==
    LET o == g.op[n]
        g1 == Accumulate(g, o.a, FxMul(g.data[o.a], g.grad[n]))
    IN Accumulate(g1, o.b, FxMul(g1.data[o.b], g1.grad[n]))

\* Operation::Mul arm of Value::backward
backward_mul(g, n) ==
    LET o == g.op[n]
        g1 == Accumulate(g, o.a, FxMul(g.data[o.b], g.grad[n]))
    IN Accumulate(g1, o.b, FxMul(g1.data[o.a], g1.grad[n]))

\* a Pow that also hands the node's gradient on to its exponent
backward_pow_exponent(g, n) ==
    LET o == g.op[n]
        x == g.data[o.a]
        k_val == g.data[o.b]
        g1 == Accumulate(g, o.a,
                  FxMul(FxMul(k_val, PowFx(x, (k_val - One) \div Scale)), g.grad[n]))
    IN Accumulate(g1, o.b, g1.grad[n])

\* Operation::Pow arm of Value::backward
backward_pow(g, n) ==
    LET o == g.op[n]
        x == g.data[o.a]
        k_val == g.data[o.b]
    IN Accumulate(g, o.a,
           FxMul(FxMul(k_val, PowFx(x, (k_val - One) \div Scale)), g.grad[n]))

\* Operation::Exp arm of Value::backward
backward_exp(g, n) ==
    LET o == g.op[n] IN Accumulate(g, o.a, FxMul(g.data[n], g.grad[n]))

\* Operation::Tanh arm of Value::backward
backward_tanh(g, n) ==
    LET o == g.op[n]
        x == g.data[o.a]
        t == TanhFx(x)
    IN Accumulate(g, o.a, FxMul(One - FxMul(t, t), g.grad[n]))

\* Operation::Tanh arm of the backward in main.rs: x is read from the cell of
\* the Tanh node itself
backward_tanh_main(g, n) ==
    LET o == g.op[n]
        x == g.data[n]
        t == TanhFx(x)
    IN Accumulate(g, o.a, FxMul(One - FxMul(t, t), g.grad[n]))

\* Value::backward of node n: the cells it leaves
backward(g, n) ==
    CASE g.op[n].tag = "Tanh" -> backward_tanh(g, n)
      [] g.op[n].tag = "Exp" -> backward_exp(g, n)
      [] g.op[n].tag = "Pow" -> backward_pow(g, n)
      [] g.op[n].tag = "Add" -> backward_add(g, n)
      [] g.op[n].tag = "Mul" -> backward_mul(g, n)
      [] OTHER -> g

\* Value::backward of the engine main.rs carries: the arms of value.rs but
\* for Tanh
backward_main(g, n) ==
    IF g.op[n].tag = "Tanh" THEN backward_tanh_main(g, n) ELSE backward(g, n)

RECURSIVE build_topo(_, _)
\* build_topo(v, nodes): what the call appends to nodes
build_topo(g, v) ==
    LET o == g.op[v]
    IN (IF o.tag \in {"Add", "Mul", "Pow"}
        THEN build_topo(g, o.a) \o build_topo(g, o.b)
        ELSE IF o.tag \in {"Tanh", "Exp"} THEN build_topo(g, o.a)
        ELSE <<>>) \o <<v>>

\* Vec::reverse
Reverse(s) == [k \in 1..Len(s) |-> s[Len(s) + 1 - k]]

\* a list handed out in the order of the walk, operands first
reversed_topo_unreversed(g, r) == build_topo(g, r)

\* Value::reversed_topo
reversed_topo(g, r) == Reverse(build_topo(g, r))

\* a seed stored in the value cell of the root as well
Seed_both(g, r) == [g EXCEPT !.data[r] = One, !.grad[r] = One]

\* *self.grad.borrow_mut() = 1.0
Seed(g, r) == [g EXCEPT !.grad[r] = One]

\* a loop that looks for one more entry after the last
AtEnd_late(k, s) == k > Len(s)

\* whether the entry at position k is the last one of the list s
AtEnd(k, s) == k >= Len(s)

RECURSIVE Replay(_, _, _)
\* `for node in topo { node.backward() }` from position k on
Replay(g, s, k) == IF k > Len(s) THEN g ELSE Replay(backward(g, s[k]), s, k + 1)

\* Value::full_backward as one call
full_backward(g, r) == Replay(Seed(g, r), reversed_topo(g, r), 1)

\* ----------------------------------------------------------------- actions
Idle == pc = "idle"

\* the caller's part of an operator application: g is the graph it leaves,
\* of which the caller receives the last node; limit bounds the nodes created
BuiltWithin(g, limit) ==
    /\ Len(g.data) <= limit
    /\ \A n \in 1..Len(g.data) : InRange(g.data[n])
    /\ data' = g.data /\ grad' = g.grad /\ op' = g.op
    /\ handles' = handles \cup {Len(g.data)}
    /\ UNCHANGED <<pc, topo, i, root, clean, passes>>

Built(g) == BuiltWithin(g, MaxNodes)

New == Idle /\ \E v \in LeafVals : Built(new(Graph, Fx(v)))

Add == Idle /\ \E x, y \in handles : Built(add(Graph, x, y))

Mul == Idle /\ \E x, y \in handles : Built(mul(Graph, x, y))

Tanh == Idle /\ \E x \in handles :
            Abs(data[x]) <= Fx(ExpArgMax) /\ Built(tanh(Graph, x))

Exp == Idle /\ \E x \in handles :
           Abs(data[x]) <= Fx(ExpArgMax) /\ Built(exp(Graph, x))

Powf == Idle /\ \E x \in handles, k \in PowExps : Built(powf(Graph, x, k))

Neg == Idle /\ \E x \in handles : Built(neg(Graph, x))

Sub == Idle /\ \E x, y \in handles : Built(sub(Graph, x, y))

\* the divisor is one whose square does not underflow to 0
Div == Idle /\ \E x, y \in handles :
           data[y] * data[y] >= Scale /\ Built(div(Graph, x, y))

\* Value::full_backward up to its loop: the list, then the seed
FullBackward ==
    /\ Idle /\ passes < MaxPasses
    /\ \E r \in handles :
         /\ topo' = reversed_topo(Graph, r)
         /\ LET g == Seed(Graph, r)
            IN data' = g.data /\ grad' = g.grad /\ op' = g.op
         /\ root' = r
    /\ clean' = (\A n \in Nodes : grad[n] = 0)
    /\ pc' = "replay" /\ i' = 1 /\ passes' = passes + 1
    /\ UNCHANGED handles

\* one iteration of `for node in topo { node.backward() }`; the loop ends
\* after the last entry
BackwardStep ==
    /\ pc = "replay" /\ i <= Len(topo)
    /\ LET g == backward(Graph, topo[i])
       IN data' = g.data /\ grad' = g.grad /\ op' = g.op
    /\ IF AtEnd(i, topo)
       THEN i' = 0 /\ pc' = "idle" /\ topo' = <<>>
       ELSE i' = i + 1 /\ UNCHANGED <<pc, topo>>
    /\ UNCHANGED <<handles, root, clean, passes>>

\* one iteration of the loop of full_backward in main.rs
BackwardStepMain ==
    /\ pc = "replay" /\ i <= Len(topo)
    /\ LET g == backward_main(Graph, topo[i])
       IN data' = g.data /\ grad' = g.grad /\ op' = g.op
    /\ IF AtEnd(i, topo)
       THEN i' = 0 /\ pc' = "idle" /\ topo' = <<>>
       ELSE i' = i + 1 /\ UNCHANGED <<pc, topo>>
    /\ UNCHANGED <<handles, root, clean, passes>>

\* the caller resets the gradient of every node between two passes
ZeroGrad ==
    /\ Idle /\ root # 0
    /\ grad' = [n \in Nodes |-> 0]
    /\ root' = 0
    /\ UNCHANGED <<data, op, handles, pc, topo, i, clean, passes>>

Init ==
    /\ data = <<>> /\ grad = <<>> /\ op = <<>>
    /\ handles = {}
    /\ pc = "idle" /\ topo = <<>> /\ i = 0
    /\ root = 0 /\ clean = TRUE /\ passes = 0

Next ==
    \/ New \/ Add \/ Mul \/ Tanh \/ Exp \/ Powf \/ Neg \/ Sub \/ Div
    \/ FullBackward \/ BackwardStep \/ ZeroGrad

Spec == Init /\ [][Next]_vars

\* the replay loop runs to its end once entered
FairSpec == Spec /\ WF_vars(BackwardStep)

\* the engine of main.rs, which the binary runs
NextMain ==
    \/ New \/ Add \/ Mul \/ Tanh \/ Exp \/ Powf \/ Neg \/ Sub \/ Div
    \/ FullBackward \/ BackwardStepMain \/ ZeroGrad

SpecMain == Init /\ [][NextMain]_vars

\* a subtraction of two leaves takes three nodes more: one node of headroom
SubNodes == MaxNodes + 1

\* impl Sub for Value, with room for two distinct leaves
SubWide == Idle /\ \E x, y \in handles : BuiltWithin(sub(Graph, x, y), SubNodes)

\* programs of leaves and subtractions
NextSub == New \/ SubWide \/ FullBackward \/ BackwardStep \/ ZeroGrad

SpecSub == Init /\ [][NextSub]_vars

\* ============================================================ verification
IsLeaf(n) == op[n].tag = "None"

RECURSIVE Reachable(_)
\* the nodes reachable from r through provenance, r included
Reachable(r) == {r} \cup UNION {Reachable(x) : x \in Operands(r)}

\* how often node n occurs in the list s
Count(s, n) == Cardinality({k \in 1..Len(s) : s[k] = n})

\* the consumers of node n among the nodes reachable from r
Consumers(r, n) == {c \in Reachable(r) : n \in Operands(c)}

\* every node below r is a leaf, an Add or a Mul
AddMulOnly(r) == \A n \in Reachable(r) : op[n].tag \in {"None", "Add", "Mul"}

RECURSIVE Deriv(_, _)
\* d r / d n over Add and Mul: the sum over all provenance paths from r to n
\* of the product of the local derivatives
Deriv(r, n) ==
    IF r = n THEN One
    ELSE IF op[r].tag = "Add" THEN Deriv(op[r].a, n) + Deriv(op[r].b, n)
    ELSE IF op[r].tag = "Mul"
         THEN FxMul(data[op[r].b], Deriv(op[r].a, n))
              + FxMul(data[op[r].a], Deriv(op[r].b, n))
    ELSE 0

\* a full_backward from root has returned, it began with every gradient 0,
\* and no gradient was reset since
PassDone == pc = "idle" /\ root # 0 /\ clean

\* C1: the list full_backward replays holds every node reachable from the
\* root exactly once, also a node reachable along several paths.
C1_EachNodeOnce ==
    pc = "replay" =>
        /\ {topo[k] : k \in 1..Len(topo)} = Reachable(root)
        /\ \A n \in Reachable(root) : Count(topo, n) = 1

\* C2: when the replay loop is about to apply the backward rule of an
\* operation node, the rule of every consumer of that node below the root has
\* already been applied.
C2_ConsumersFirst ==
    (pc = "replay" /\ ~IsLeaf(topo[i])) =>
        \A c \in Consumers(root, topo[i]) : \E k \in 1..(i - 1) : topo[k] = c

\* C3: after a full_backward over Add and Mul that began with every gradient
\* 0, each leaf below the root holds the exact derivative of the root by it.
C3_ExactLeafGradient ==
    (PassDone /\ AddMulOnly(root)) =>
        \A n \in Reachable(root) : IsLeaf(n) => grad[n] = Deriv(root, n)

\* C4: after a full_backward from y = x + x over a leaf x that began with
\* every gradient 0, x holds 2 and y holds 1.
C4_AddSelf ==
    (PassDone /\ op[root].tag = "Add" /\ op[root].a = op[root].b
              /\ IsLeaf(op[root].a)) =>
        grad[op[root].a] = Fx(2) /\ grad[root] = One

C4_Witness ==
    /\ PassDone /\ op[root].tag = "Add" /\ op[root].a = op[root].b
    /\ IsLeaf(op[root].a) /\ data[op[root].a] = Fx(3)
    /\ grad[op[root].a] = Fx(2)

\* C5: z = a * b over two distinct leaves holds the product of their values,
\* and after a full_backward from z that began with every gradient 0, a holds
\* the value of b, b the value of a, and z holds 1.
C5_MulGradient ==
    (PassDone /\ op[root].tag = "Mul" /\ op[root].a # op[root].b
              /\ IsLeaf(op[root].a) /\ IsLeaf(op[root].b)) =>
        /\ data[root] * Scale = data[op[root].a] * data[op[root].b]
        /\ grad[op[root].a] = data[op[root].b]
        /\ grad[op[root].b] = data[op[root].a]
        /\ grad[root] = One

C5_Witness ==
    /\ PassDone /\ op[root].tag = "Mul"
    /\ IsLeaf(op[root].a) /\ IsLeaf(op[root].b)
    /\ data[op[root].a] = Fx(2) /\ data[op[root].b] = Fx(3)
    /\ grad[op[root].a] = Fx(3) /\ grad[op[root].b] = Fx(2)

RECURSIVE Fresh(_)
\* the value node n has in a copy of the graph built anew from the same leaves
Fresh(n) ==
    LET o == op[n]
    IN CASE o.tag = "Add" -> Fresh(o.a) + Fresh(o.b)
         [] o.tag = "Mul" -> FxMul(Fresh(o.a), Fresh(o.b))
         [] o.tag = "Pow" -> PowFx(Fresh(o.a), Fresh(o.b) \div Scale)
         [] o.tag = "Exp" -> ExpFx(Fresh(o.a))
         [] o.tag = "Tanh" -> TanhFx(Fresh(o.a))
         [] OTHER -> data[n]

\* that copy: the same provenance, fresh values, every gradient 0
FreshGraph ==
    [data |-> [n \in Nodes |-> Fresh(n)], grad |-> [n \in Nodes |-> 0], op |-> op]

\* C6: once every gradient has been reset after a full_backward, a second
\* full_backward leaves each node with the gradient the same call leaves on
\* a freshly built copy of the graph.
C6_NoResidue ==
    (PassDone /\ passes >= 2) =>
        \A n \in Nodes : grad[n] = full_backward(FreshGraph, root).grad[n]

C6_Witness ==
    /\ PassDone /\ passes >= 2
    /\ op[root].tag = "Mul" /\ ~IsLeaf(op[root].a)
    /\ \E n \in Reachable(root) : IsLeaf(n) /\ grad[n] > One

RECURSIVE Pow2(_)
Pow2(k) == IF k = 0 THEN 1 ELSE 2 * Pow2(k - 1)

\* C7: full_backward terminates: the walk yields a list shorter than 2^root
\* entries, and the replay loop, once entered, reaches its end.
C7_Terminates ==
    /\ [](pc = "replay" => Len(topo) < Pow2(root))
    /\ (pc = "replay") ~> (pc = "idle")

C7_Witness ==
    /\ pc = "idle" /\ root # 0
    /\ Len(reversed_topo(Graph, root)) > Cardinality(Reachable(root))

\* C8: the operands of every node were created before the node, and no node
\* is reachable from itself.
C8_Acyclic ==
    /\ \A n \in Nodes : Operands(n) \subseteq 1..(n - 1)
    /\ \A n \in Nodes : n \notin UNION {Reachable(x) : x \in Operands(n)}

C8_Witness ==
    \E n \in Nodes : /\ op[n].tag = "Mul"
                     /\ op[op[n].b].tag = "Pow"
                     /\ data[op[op[n].b].b] = Fx(-1)

\* C9: no step changes the value or the provenance of a node that exists.
C9_ValueProvenanceFrame ==
    [][\A n \in Nodes : data'[n] = data[n] /\ op'[n] = op[n]]_vars

C9_Witness ==
    /\ pc = "idle" /\ root # 0 /\ op[root].tag = "Mul"
    /\ grad[op[root].a] # 0 /\ grad[op[root].b] # 0
    /\ Len(data) > root

\* C10: the exponent of a Pow node never receives gradient: it holds 0
\* before, during and after every full_backward.
C10_ExponentNoGradient ==
    \A n \in Nodes : op[n].tag = "Pow" => grad[op[n].b] = 0

C10_Witness ==
    /\ PassDone /\ ~IsLeaf(root)
    /\ \E n \in Reachable(root) :
         /\ op[n].tag = "Pow" /\ grad[n] # 0
         /\ grad[op[n].a] # 0 /\ grad[op[n].b] = 0

\* C11: the backward rule of a Tanh node adds (1 - t*t) * gradient of the node
\* to the gradient of its operand, where t is tanh at the operand's value,
\* which is the value the Tanh node holds; t is never tanh at the node's own
\* value.
C11_TanhAtOperand ==
    [][(pc = "replay" /\ op[topo[i]].tag = "Tanh") =>
          LET n == topo[i]
              a == op[n].a
              t == TanhFx(data[a])
          IN /\ t = data[n]
             /\ grad'[a] = grad[a] + FxMul(One - FxMul(t, t), grad[n])]_vars

\* a Tanh rule is about to be applied with a gradient to hand on
C11_Witness ==
    /\ pc = "replay" /\ op[topo[i]].tag = "Tanh"
    /\ grad[topo[i]] # 0
    /\ TanhFx(data[topo[i]]) # data[topo[i]]

\* C12: d = a - b is the node Add(a, Mul(b, c)) with c a fresh leaf of value
\* -1 and the product node materialized; d.value = a.value - b.value; and for
\* distinct leaves a and b with gradient 0, full_backward from d leaves
\* a.gradient = 1, b.gradient = -1 and c.gradient = b.value.
C12_SubPrimitives ==
    \A d \in Nodes :
        op[d].tag = "Add" =>
            LET a == op[d].a
                m == op[d].b
                b == op[m].a
                c == op[m].b
            IN /\ op[m].tag = "Mul" /\ m = d - 1 /\ m \notin handles
               /\ IsLeaf(c) /\ c = d - 2 /\ c \notin handles
               /\ data[c] = -One
               /\ {a, b} \subseteq handles
               /\ data[d] = data[a] - data[b]
               /\ (PassDone /\ root = d /\ a # b /\ IsLeaf(a) /\ IsLeaf(b)) =>
                      /\ grad[a] = One
                      /\ grad[b] = -One
                      /\ grad[c] = data[b]

\* a pass from d = a - b over two distinct leaves of different value is done
C12_Witness ==
    /\ PassDone /\ op[root].tag = "Add"
    /\ LET a == op[root].a
           b == op[op[root].b].a
       IN /\ a # b /\ IsLeaf(a) /\ IsLeaf(b)
          /\ data[a] # data[b]
          /\ grad[b] = -One

\* what the rule of the Add or Mul node r adds to node h when r holds
\* gradient 1
Share(r, h) ==
    (IF op[r].a = h
     THEN (IF op[r].tag = "Add" THEN One ELSE data[op[r].b]) ELSE 0)
    + (IF op[r].b = h
       THEN (IF op[r].tag = "Add" THEN One ELSE data[op[r].a]) ELSE 0)

\* C13: a node is its cell. Every operand reference a consumer stores is the
\* cell of the node the caller handed in (or of a node made inside the same
\* operator call), so after full_backward from a consumer of leaves the
\* caller's handles show exactly what the consumer accumulated; a leaf that
\* was constructed separately, also one of identical value, receives nothing
\* of it.
C13_SharedCell ==
    /\ \A n \in Nodes :
          ~IsLeaf(n) =>
              /\ op[n].a \in handles
              /\ op[n].b \in handles \cup {0, n - 1}
    /\ (PassDone /\ op[root].tag \in {"Add", "Mul"}
           /\ IsLeaf(op[root].a) /\ IsLeaf(op[root].b)) =>
          \A h \in Nodes \ {root} : grad[h] = Share(root, h)

\* a pass from a consumer of a leaf a is done while the caller holds another
\* leaf of the value of a
C13_Witness ==
    /\ PassDone /\ op[root].tag \in {"Add", "Mul"}
    /\ IsLeaf(op[root].a) /\ IsLeaf(op[root].b)
    /\ grad[op[root].a] # 0
    /\ \E h \in handles \ Operands(root) :
         /\ IsLeaf(h) /\ data[h] = data[op[root].a]
         /\ grad[h] = 0

RECURSIVE Paths(_, _)
\* the number of provenance paths from r down to n
Paths(r, n) ==
    IF r = n THEN 1
    ELSE (IF op[r].a # 0 THEN Paths(op[r].a, n) ELSE 0)
         + (IF op[r].b # 0 THEN Paths(op[r].b, n) ELSE 0)

\* no operation node below r is reached along more than one path
NoSharedOp(r) ==
    \A n \in Reachable(r) : ~IsLeaf(n) => Paths(r, n) = 1

\* C14: when no operation node is reachable from the root along more than one
\* path (leaves may be shared), the list full_backward replays holds every
\* reachable operation node exactly once and after all of its consumers, and
\* a pass over Add and Mul that began with every gradient 0 leaves every
\* reachable node with the exact derivative of the root by it.
C14_UnsharedOperations ==
    /\ (pc = "replay" /\ NoSharedOp(root)) =>
          \A n \in Reachable(root) :
              ~IsLeaf(n) =>
                  /\ Count(topo, n) = 1
                  /\ \A c \in Consumers(root, n) :
                        \A k, l \in 1..Len(topo) :
                            (topo[k] = c /\ topo[l] = n) => k < l
    /\ (PassDone /\ NoSharedOp(root) /\ AddMulOnly(root)) =>
          \A n \in Reachable(root) : grad[n] = Deriv(root, n)

\* a pass over two operation nodes and a leaf reached along two paths is done
C14_Witness ==
    /\ PassDone /\ NoSharedOp(root) /\ AddMulOnly(root)
    /\ Cardinality({n \in Reachable(root) : ~IsLeaf(n)}) >= 2
    /\ \E n \in Reachable(root) :
         /\ IsLeaf(n) /\ Paths(root, n) >= 2
         /\ grad[n] = Deriv(root, n) /\ grad[n] # 0

====
